---------------------------- MODULE Spec2Model ----------------------------
(***************************************************************************)
(* Model of the two algorithmic cores of hyperfckgradients:                *)
(*   - generate_wave_variation (src/src/comprehensive_wave_generator.py)   *)
(*   - the palette quantizers of src/src/dithering.py                      *)
(* Colours are triples of channel values, hex strings are six hex digits,  *)
(* Python floats that the code derives from integers are exact rationals   *)
(* <<numerator, denominator>>, and math.sin is a fixed-point table.        *)
(***************************************************************************)
EXTENDS Integers, Sequences, FiniteSets, TLC

VARIABLES
    args,          \* arguments of the running generate_wave_variation call
    pc,            \* position of the call: call/jitter/fill/backfill/compose/returned/raised
    gradient,      \* the numpy array `gradient` (<<>> before it is allocated)
    smooth_noise,  \* the jitter curve (<<>> stands for None)
    rng,           \* state of the process-wide numpy random generator
    result,        \* the returned image (<<>> while nothing was returned)
    err,           \* the exception raised to the caller ("" while none)
    calls,         \* number of the call being made with these arguments (1 or 2)
    first,         \* image returned by the first call (<<>> before)
    rng0,          \* generator state at entry of each call made so far
    dargs,         \* arguments of the running apply_dithering call
    dpc,           \* position of the dithering call
    palette,       \* palette loaded by load_palette_from_file
    output,        \* working buffer `output` of the running dither
    cur,           \* <<x, y>> of the next block of the scan
    touched,       \* number of image cells read or written so far
    dresult,       \* the image returned by the dither (<<>> while none)
    derr,          \* the exception raised by apply_dithering ("" while none)
    call,          \* a call of one of the small functions: its name and arguments
    ret,           \* what that call returned (<<>> while it has not returned)
    pending,       \* pixels or blocks of a pass that were not processed yet
    wave_frequency \* the fill loop's local of that name (<<>> while unassigned)

wvars == <<args, pc, gradient, smooth_noise, rng, result, err, calls, first, rng0>>
dvars == <<dargs, dpc, palette, output, cur, touched, dresult, derr>>
hvars == <<call, ret, pending, wave_frequency>>
vars == <<args, pc, gradient, smooth_noise, rng, result, err, calls, first, rng0,
          dargs, dpc, palette, output, cur, touched, dresult, derr,
          call, ret, pending, wave_frequency>>

---------------------------------------------------------------------------
(* Bounds of the model *)

MaxW == 4
MaxH == 4
MaxBorder == 1
MaxPal == 2
MaxSteps == 2

---------------------------------------------------------------------------
(* Arithmetic helpers *)

Abs(i) == IF i < 0 THEN -i ELSE i

Min2(a, b) == IF a < b THEN a ELSE b

Max2(a, b) == IF a > b THEN a ELSE b

\* mutant: rounding toward minus infinity
TruncDiv_floor(num, den) == num \div den

\* Python's int(float): truncation toward zero of num/den (den > 0)
TruncDiv(num, den) == IF num >= 0 THEN num \div den ELSE -((-num) \div den)

RECURSIVE GCD(_, _)
GCD(a, b) == IF b = 0 THEN a ELSE GCD(b, a % b)

\* Exact rationals <<n, d>> with d > 0, kept in lowest terms
RNorm(r) == IF r[1] = 0 THEN <<0, 1>>
            ELSE LET g == GCD(Abs(r[1]), r[2]) IN <<r[1] \div g, r[2] \div g>>

RSub(a, b) == RNorm(<<a[1] * b[2] - b[1] * a[2], a[2] * b[2]>>)

RAdd(a, b) == RNorm(<<a[1] * b[2] + b[1] * a[2], a[2] * b[2]>>)

RMul(a, b) == RNorm(<<a[1] * b[1], a[2] * b[2]>>)

RLt(a, b) == a[1] * b[2] < b[1] * a[2]

RMin(a, b) == IF RLt(b, a) THEN b ELSE a

RMax(a, b) == IF RLt(a, b) THEN b ELSE a

RAbs(a) == <<Abs(a[1]), a[2]>>

RZero == <<0, 1>>

ROne == <<1, 1>>

\* base ** p for the exponents the model draws (p = 1 or p = 2)
RPow(base, p) == IF p = 2 THEN RMul(base, base) ELSE base

\* math.sin(2*pi*t) for t = k/(2W), in units of 1/SinScale; row W holds k = 0..2W-1
SinScale == 10000

SinTable ==
    << <<0, 0>>,
       <<0, 10000, 0, -10000>>,
       <<0, 8660, 8660, 0, -8660, -8660>>,
       <<0, 7071, 10000, 7071, 0, -7071, -10000, -7071>>,
       <<0, 5878, 9511, 9511, 5878, 0, -5878, -9511, -9511, -5878>>,
       <<0, 5000, 8660, 10000, 8660, 5000, 0, -5000, -8660, -10000, -8660, -5000>>,
       <<0, 4339, 7818, 9749, 9749, 7818, 4339, 0, -4339, -7818, -9749, -9749,
         -7818, -4339>>,
       <<0, 3827, 7071, 9239, 10000, 9239, 7071, 3827, 0, -3827, -7071, -9239,
         -10000, -9239, -7071, -3827>> >>

\* sin(2*pi * (freq2/2) * x / W), freq2 being twice wave_frequency
Sin2(freq2, x, W) == SinTable[W][((freq2 * x) % (2 * W)) + 1]

---------------------------------------------------------------------------
(* Colours *)

\* hex strings "#RRGGBB" as their six hex digits
HexBlack == <<0, 0, 0, 0, 0, 0>>

HexWhite == <<15, 15, 15, 15, 15, 15>>

HexRed == <<15, 15, 0, 0, 0, 0>>

HexGray == <<8, 0, 8, 0, 8, 0>>

hex_to_rgb(hex_color) ==
    <<hex_color[1] * 16 + hex_color[2],
      hex_color[3] * 16 + hex_color[4],
      hex_color[5] * 16 + hex_color[6]>>

Sentinel == <<0, 0, 0>>

---------------------------------------------------------------------------
(* generate_wave_variation: the per-pixel formula *)

WaveTypes == {"0.0", "1A", "1B", "1C", "1D", "2A", "2B", "2C", "2D", "2E",
              "3A", "3B", "3C", "3D", "4A", "4B"}

\* mutant: 3C flip-tagged as well
FlipTypes_3C == {"1C", "1D", "2C", "2D", "3B", "3C", "3D"}

FlipTypes == {"1C", "1D", "2C", "2D", "3B", "3D"}

grad_width(a) == a.width - 2 * a.border

\* mutant: the border subtracted once instead of on both sides
grad_height_once(a) == a.height - a.border

grad_height(a) == a.height - 2 * a.border

\* colors[start_idx:end_idx] with Python's slice clamping
PySlice(colors, start_idx, end_idx) ==
    LET lo == Min2(start_idx, Len(colors))
        hi == Min2(end_idx, Len(colors))
    IN  IF hi <= lo THEN <<>> ELSE SubSeq(colors, lo + 1, hi)

RECURSIVE SumChannel(_, _)
SumChannel(slice_colors, ch) ==
    IF slice_colors = <<>> THEN 0
    ELSE hex_to_rgb(Head(slice_colors))[ch] + SumChannel(Tail(slice_colors), ch)

\* mutant: off-by-one in the divisor of the mean
average_palette_slice_plus1(colors, start_idx, end_idx) ==
    LET slice_colors == PySlice(colors, start_idx, Max2(start_idx + 1, end_idx))
        n == Len(slice_colors) + 1
    IN  <<SumChannel(slice_colors, 1) \div n,
          SumChannel(slice_colors, 2) \div n,
          SumChannel(slice_colors, 3) \div n>>

average_palette_slice(colors, start_idx, end_idx) ==
    LET slice_colors == PySlice(colors, start_idx, Max2(start_idx + 1, end_idx))
        n == Len(slice_colors)
    IN  IF n = 0 THEN hex_to_rgb(colors[1])
        ELSE <<SumChannel(slice_colors, 1) \div n,
               SumChannel(slice_colors, 2) \div n,
               SumChannel(slice_colors, 3) \div n>>

\* mutant: the position of every wave type is centre-shifted
normalized_x_shifted(a, x) ==
    RMin(ROne, RMax(RZero, RSub(RNorm(<<x, grad_width(a)>>), a.center_shift)))

normalized_x(a, x) == RNorm(<<x, grad_width(a)>>)

shifted_x(a, x) == RMin(ROne, RMax(RZero, RSub(normalized_x(a, x), a.center_shift)))

\* the asymmetry exponent of the 4A/4B branches
AsymPower(a, sx) ==
    IF a.asymmetry = 0 THEN 1
    ELSE IF RLt(sx, <<1, 2>>) THEN 1 + Abs(a.asymmetry)
    ELSE IF a.asymmetry < 0 THEN 1 + Abs(a.asymmetry) ELSE 1

\* "wave on left, straight on right": the 1A/1C body (also 3A, 3B, 3C left half)
EarlyWave(a, nx) ==
    IF RLt(nx, <<3, 10>>)
    THEN RMul(RMul(<<1, 4>>, a.amplitude_scale), RSub(ROne, RMul(nx, <<10, 3>>)))
    ELSE RZero

\* "straight on left, wave on right": the 1B/1D body (also 3D left half)
LateWave(a, nx) ==
    IF RLt(<<7, 10>>, nx)
    THEN RMul(RMul(<<1, 4>>, a.amplitude_scale),
              RMul(RSub(nx, <<7, 10>>), <<10, 3>>))
    ELSE RZero

\* the 2A/2C body (also 3A, 3B, 3C right half)
HalfRise(a, nx) ==
    IF RLt(nx, <<1, 2>>) THEN RZero
    ELSE RMul(RMul(<<1, 5>>, a.amplitude_scale), RMul(RSub(nx, <<1, 2>>), <<2, 1>>))

\* mutant: the comparison of the 2B/2D body reversed
HalfFall_reversed(a, nx) ==
    IF RLt(nx, <<1, 2>>) THEN RZero
    ELSE RMul(RMul(<<1, 5>>, a.amplitude_scale), RSub(ROne, RMul(nx, <<2, 1>>)))

\* the 2B/2D body (also 3D right half)
HalfFall(a, nx) ==
    IF RLt(<<1, 2>>, nx) THEN RZero
    ELSE RMul(RMul(<<1, 5>>, a.amplitude_scale), RSub(ROne, RMul(nx, <<2, 1>>)))

\* current_amp and wave_frequency (freq2 = 2 * wave_frequency) of column x;
\* bound = FALSE when no branch assigns wave_frequency
WaveShape(a, x) ==
    LET nx == normalized_x(a, x)
        sx == shifted_x(a, x)
        wt == a.wave_type
        center_distance == RMul(RAbs(RSub(sx, <<1, 2>>)), <<2, 1>>)
        set(amp, f2) == [amp |-> amp, freq2 |-> f2, bound |-> TRUE]
    IN  IF wt = "0.0" THEN set(RZero, 2)
        ELSE IF wt = "4A" THEN
            LET base == RSub(ROne, center_distance)
                wave_intensity == RPow(RMul(base, base), AsymPower(a, sx))
            IN  set(RMul(a.wave_amplitude, wave_intensity), 2)
        ELSE IF wt = "4B" THEN
            LET wave_intensity ==
                    RPow(RMul(center_distance, center_distance), AsymPower(a, sx))
            IN  set(RMul(a.wave_amplitude, wave_intensity), 2)
        ELSE IF wt \in {"1A", "1C"} THEN set(EarlyWave(a, nx), 3)
        ELSE IF wt \in {"1B", "1D"} THEN set(LateWave(a, nx), 3)
        ELSE IF wt \in {"2A", "2C"} THEN set(HalfRise(a, nx), 2)
        ELSE IF wt \in {"2B", "2D"} THEN set(HalfFall(a, nx), 2)
        ELSE IF wt = "2E" THEN
            IF RLt(nx, <<1, 4>>) \/ RLt(<<3, 4>>, nx) THEN set(RZero, 2)
            ELSE set(RMul(RMul(<<1, 5>>, a.amplitude_scale),
                          RSub(ROne, RMul(RSub(nx, <<1, 4>>), <<2, 1>>))), 2)
        ELSE IF RLt(nx, <<1, 2>>) THEN
            IF wt \in {"3A", "3B", "3C"} THEN set(EarlyWave(a, nx), 3)
            ELSE IF wt = "3D" THEN set(LateWave(a, nx), 3)
            ELSE [amp |-> RZero, freq2 |-> 0, bound |-> FALSE]
        ELSE
            IF wt \in {"3A", "3B", "3C"} THEN set(HalfRise(a, nx), 2)
            ELSE IF wt = "3D" THEN set(HalfFall(a, nx), 2)
            ELSE [amp |-> RZero, freq2 |-> 0, bound |-> FALSE]

\* int(organic_jitter * grad_height * smooth_noise[x]); 0 when smooth_noise is None
JitterOffset(a, noise, x) ==
    IF noise = <<>> THEN 0
    ELSE LET r == RMul(RMul(a.organic_jitter, <<grad_height(a), 1>>), noise[x + 1])
         IN  TruncDiv(r[1], r[2])

\* int(current_amp * grad_height * math.sin(2*pi*wave_frequency*normalized_x)) + jitter
wave_offset(a, noise, x) ==
    LET w == WaveShape(a, x)
    IN  TruncDiv(w.amp[1] * grad_height(a) * Sin2(w.freq2, x, grad_width(a)),
                 w.amp[2] * SinScale)
        + JitterOffset(a, noise, x)

\* mutant: the offset is added for every wave type
adjusted_y_noflip(a, noise, x, y) == y + wave_offset(a, noise, x)

adjusted_y(a, noise, x, y) ==
    IF a.wave_type \in FlipTypes THEN y - wave_offset(a, noise, x)
    ELSE y + wave_offset(a, noise, x)

\* mutant: the row scaled by steps - 1 instead of steps
StepOf_minus1(a, noise, x, y) ==
    Max2(0, Min2(a.steps - 1,
                 TruncDiv(adjusted_y(a, noise, x, y) * (a.steps - 1), grad_height(a))))

\* step = max(0, min(steps - 1, int(adjusted_y / grad_height * steps)))
StepOf(a, noise, x, y) ==
    Max2(0, Min2(a.steps - 1,
                 TruncDiv(adjusted_y(a, noise, x, y) * a.steps, grad_height(a))))

---------------------------------------------------------------------------
(* IEEE double arithmetic of the slice indices: len(colors) / steps and its *)
(* product with a step are each rounded to 53 significant bits, to nearest, *)
(* ties to even.  A float is [bits, frac]: the integer whose binary digits  *)
(* are `bits` (most significant first, no leading zero) divided by 2^frac.  *)

FloatBits == 53

\* binary digits are produced and multiplied Chunk at a time
Chunk == 9

\* the long division produces QuotientChunks * Chunk fractional digits
QuotientChunks == 8

\* binary digits of a natural number, <<>> for 0
RECURSIVE IntBits(_)
IntBits(n) == IF n = 0 THEN <<>> ELSE Append(IntBits(n \div 2), n % 2)

RECURSIVE BitsInt(_)
BitsInt(b) ==
    IF b = <<>> THEN 0 ELSE 2 * BitsInt(SubSeq(b, 1, Len(b) - 1)) + b[Len(b)]

\* the n-digit binary form of d < 2^n
Pad(d, n) == [j \in 1 .. n |-> (d \div (2 ^ (n - j))) % 2]

StripZeros(b) ==
    IF \A i \in 1 .. Len(b) : b[i] = 0 THEN <<>>
    ELSE LET lead == CHOOSE i \in 1 .. Len(b) :
                         b[i] = 1 /\ \A j \in 1 .. (i - 1) : b[j] = 0
         IN  SubSeq(b, lead, Len(b))

\* long division: the next count * Chunk fractional digits of r / den, r < den
RECURSIVE FractionBits(_, _, _)
FractionBits(r, den, count) ==
    IF count = 0 THEN [bits |-> <<>>, rem |-> r]
    ELSE LET more == FractionBits((r * (2 ^ Chunk)) % den, den, count - 1)
         IN  [bits |-> Pad((r * (2 ^ Chunk)) \div den, Chunk) \o more.bits,
              rem |-> more.rem]

\* b + 1
Increment(b) ==
    IF \A i \in 1 .. Len(b) : b[i] = 1 THEN <<1>> \o [i \in 1 .. Len(b) |-> 0]
    ELSE LET last0 == CHOOSE i \in 1 .. Len(b) :
                          b[i] = 0 /\ \A j \in (i + 1) .. Len(b) : b[j] = 1
         IN  [i \in 1 .. Len(b) |-> IF i < last0 THEN b[i] ELSE IF i = last0 THEN 1 ELSE 0]

\* round-to-nearest, ties to even, of an exact value [bits, frac, sticky], where
\* sticky tells that further non-zero digits follow `bits`
RoundNearestEven(e) ==
    IF Len(e.bits) <= FloatBits THEN [bits |-> e.bits, frac |-> e.frac]
    ELSE LET keep == SubSeq(e.bits, 1, FloatBits)
             dropped == Len(e.bits) - FloatBits
             guard == e.bits[FloatBits + 1]
             rest == e.sticky \/ \E i \in (FloatBits + 2) .. Len(e.bits) : e.bits[i] = 1
             m == IF guard = 1 /\ (rest \/ keep[FloatBits] = 1)
                  THEN Increment(keep) ELSE keep
         IN  IF Len(m) > FloatBits
             THEN [bits |-> SubSeq(m, 1, FloatBits), frac |-> e.frac - dropped - 1]
             ELSE [bits |-> m, frac |-> e.frac - dropped]

\* num / den for positive integers
FloatDiv(num, den) ==
    LET fr == FractionBits(num % den, den, QuotientChunks)
    IN  RoundNearestEven([bits |-> StripZeros(IntBits(num \div den) \o fr.bits),
                          frac |-> Chunk * QuotientChunks,
                          sticky |-> fr.rem # 0])

\* the digits of b * k + carry, worked from the low end, Chunk digits at a time
RECURSIVE MulBits(_, _, _)
MulBits(b, k, carry) ==
    IF b = <<>> THEN IntBits(carry)
    ELSE LET n == Min2(Chunk, Len(b))
             p == BitsInt(SubSeq(b, Len(b) - n + 1, Len(b))) * k + carry
         IN  MulBits(SubSeq(b, 1, Len(b) - n), k, p \div (2 ^ n)) \o Pad(p % (2 ^ n), n)

\* k * f for a natural number k (which a double holds exactly)
FloatMulInt(k, f) ==
    RoundNearestEven([bits |-> StripZeros(MulBits(f.bits, k, 0)), frac |-> f.frac,
                      sticky |-> FALSE])

\* int(f) for f >= 0
FloatToInt(f) ==
    IF Len(f.bits) <= f.frac THEN 0
    ELSE BitsInt(SubSeq(f.bits, 1, Len(f.bits) - f.frac))

\* int(n * (P / S))
FloatIndex(n, P, S) == FloatToInt(FloatMulInt(n, FloatDiv(P, S)))

\* palette lengths and step counts of the slice-colour calls
MaxSlicePal == 15

MaxSliceSteps == 11

\* int(n * colors_per_step) for every palette length and step count in use,
\* computed once
IndexTable ==
    [P \in 1 .. Max2(MaxPal, MaxSlicePal), S \in 1 .. Max2(MaxSteps, MaxSliceSteps) |->
        [n \in 0 .. S |-> FloatIndex(n, P, S)]]

\* the palette slice of a step: int(step * colors_per_step), int((step+1) * colors_per_step)
start_color_idx(a, step) == IndexTable[Len(a.colors), a.steps][step]

end_color_idx(a, step) == IndexTable[Len(a.colors), a.steps][step + 1]
---------------------------------------------------------------------------

StepColor(a, step) ==
    average_palette_slice(a.colors, start_color_idx(a, step), end_color_idx(a, step))

\* the colour the fill loop writes at gradient[y, x]
PixelColor(a, noise, x, y) == StepColor(a, StepOf(a, noise, x, y))

---------------------------------------------------------------------------
(* The process-wide random generator and the organic jitter curve *)

\* the generator is a small congruential one: what matters is that a draw is a
\* function of the state and that seeding fixes the state
RngMod == 7

RngStates == 0 .. (RngMod - 1)

RngNext(s) == (3 * s + 1) % RngMod

\* np.random.seed(int(random_seed))
SeedState(seed) == (5 * seed + 1) % RngMod

\* one uniform(-1, 1) value of a generator state
RngValue(s) == <<2 * s - 6, 13>>

\* smooth_noise is not None exactly when this holds
JitterOn(a) == a.organic_jitter # RZero /\ grad_width(a) > 1

\* mutant: the seed is ignored
KnotState_unseeded(a, s) == s

\* generator state from which the knots are drawn
KnotState(a, s) == IF a.random_seed # <<>> THEN SeedState(a.random_seed[1]) ELSE s

n_knots(a) == Max2(2, grad_width(a) \div 80)

\* np.interp over the two knots at 0 and grad_width - 1 (widths below 160)
Interp(a, s, x) ==
    LET s1 == RngNext(KnotState(a, s))
        v0 == RngValue(s1)
        v1 == RngValue(RngNext(s1))
    IN  RAdd(v0, RMul(RSub(v1, v0), <<x, grad_width(a) - 1>>))

\* np.convolve(smooth_noise, [0.25, 0.5, 0.25], mode='same'): zero outside
SmoothNoise(a, s) ==
    LET at(x) == IF x < 0 \/ x >= grad_width(a) THEN RZero ELSE Interp(a, s, x)
    IN  [i \in 1 .. grad_width(a) |->
            RAdd(RAdd(RMul(<<1, 4>>, at(i - 2)), RMul(<<1, 2>>, at(i - 1))),
                 RMul(<<1, 4>>, at(i)))]

\* generator state after the n_knots draws
RngAfter(a, s) == RngNext(RngNext(KnotState(a, s)))

---------------------------------------------------------------------------
(* generate_wave_variation: the call *)

Rows(a) == 0 .. (grad_height(a) - 1)

Cols(a) == 0 .. (grad_width(a) - 1)

\* np.zeros((grad_height, grad_width, 3), dtype=np.uint8)
Zeros(a) == [y \in Rows(a) |-> [x \in Cols(a) |-> Sentinel]]

GeometryError == "ValueError: Border too large for image dimensions"

UnboundError == "UnboundLocalError: wave_frequency"

\* lines 30-73: geometry check, allocation, jitter curve
Enter ==
    /\ pc = "call"
    /\ rng0' = Append(rng0, rng)
    /\ IF grad_width(args) <= 0 \/ grad_height(args) <= 0
       THEN /\ err' = GeometryError
            /\ pc' = "raised"
            /\ UNCHANGED <<gradient, smooth_noise, rng>>
       ELSE /\ gradient' = Zeros(args)
            /\ IF JitterOn(args)
               THEN /\ smooth_noise' = SmoothNoise(args, rng)
                    /\ rng' = RngAfter(args, rng)
               ELSE /\ smooth_noise' = <<>>
                    /\ rng' = rng
            /\ pc' = "fill"
            /\ err' = err
    /\ UNCHANGED <<args, result, calls, first, dvars, hvars>>

FillAll(a, noise) == [y \in Rows(a) |-> [x \in Cols(a) |-> PixelColor(a, noise, x, y)]]

\* lines 76-241: the fill loop; the first pixel raises when no branch has
\* assigned wave_frequency
Fill ==
    /\ pc = "fill"
    /\ IF WaveShape(args, 0).bound
       THEN /\ gradient' = FillAll(args, smooth_noise)
            /\ pc' = "backfill"
            /\ err' = err
       ELSE /\ err' = UnboundError
            /\ pc' = "raised"
            /\ gradient' = gradient
    /\ UNCHANGED <<args, smooth_noise, rng, result, calls, first, rng0, dvars, hvars>>

top_color(a) == hex_to_rgb(a.colors[1])

\* mutant: the backfill pass is skipped
BackfillAll_skip(a, g) == g

\* mutant: the backfill colour is the palette's last colour
BackfillAll_last(a, g) ==
    [y \in Rows(a) |-> [x \in Cols(a) |->
        IF g[y][x] = Sentinel THEN hex_to_rgb(a.colors[Len(a.colors)]) ELSE g[y][x]]]

BackfillAll(a, g) ==
    [y \in Rows(a) |-> [x \in Cols(a) |->
        IF g[y][x] = Sentinel THEN top_color(a) ELSE g[y][x]]]

\* lines 243-248
Backfill ==
    /\ pc = "backfill"
    /\ gradient' = BackfillAll(args, gradient)
    /\ pc' = "compose"
    /\ UNCHANGED <<args, smooth_noise, rng, result, err, calls, first, rng0, dvars, hvars>>

\* Image.new + paste at (border, border)
Framed(a, g, frame_rgb) ==
    [w |-> a.width, h |-> a.height,
     px |-> [y \in 0 .. (a.height - 1) |-> [x \in 0 .. (a.width - 1) |->
                IF /\ y - a.border \in Rows(a)
                   /\ x - a.border \in Cols(a)
                THEN g[y - a.border][x - a.border]
                ELSE frame_rgb]]]

\* Image.fromarray(gradient)
FromArray(a, g) == [w |-> grad_width(a), h |-> grad_height(a), px |-> g]

\* lines 250-257
FinalImage(a, g) ==
    IF a.border > 0 /\ a.border_color # <<>>
    THEN Framed(a, g, hex_to_rgb(a.border_color))
    ELSE FromArray(a, g)

Compose ==
    /\ pc = "compose"
    /\ result' = FinalImage(args, gradient)
    /\ pc' = "returned"
    /\ UNCHANGED <<args, gradient, smooth_noise, rng, err, calls, first, rng0, dvars, hvars>>

---------------------------------------------------------------------------
(* Inputs of the wave generator *)

Colours == {HexBlack, HexWhite}

\* every black/white palette up to MaxPal entries, and two coloured ones
Palettes == UNION {[1 .. n -> Colours] : n \in 1 .. MaxPal}
            \cup {<<HexGray>>, <<HexRed, HexBlack>>}

WaveTypeInputs == WaveTypes \cup {"5A"}

\* wave_amplitude, amplitude_scale, center_shift, asymmetry, organic_jitter, random_seed
WaveParam(wa, sc, cs, asy, oj, seed) ==
    [wave_amplitude |-> wa, amplitude_scale |-> sc, center_shift |-> cs,
     asymmetry |-> asy, organic_jitter |-> oj, random_seed |-> seed]

WaveParams ==
    { WaveParam(<<1, 5>>, <<1, 1>>, RZero, 0, RZero, <<>>),
      WaveParam(<<2, 1>>, <<12, 1>>, <<1, 4>>, 1, RZero, <<1>>),
      WaveParam(<<2, 1>>, <<12, 1>>, <<-1, 4>>, -1, <<2, 1>>, <<1>>),
      WaveParam(<<1, 5>>, <<12, 1>>, RZero, 0, <<2, 1>>, <<>>) }

WaveArgs ==
    { [width |-> w, height |-> h, colors |-> cols, steps |-> st, wave_type |-> wt,
       border |-> b, border_color |-> bc,
       wave_amplitude |-> p.wave_amplitude, amplitude_scale |-> p.amplitude_scale,
       center_shift |-> p.center_shift, asymmetry |-> p.asymmetry,
       organic_jitter |-> p.organic_jitter, random_seed |-> p.random_seed] :
      w \in 3 .. MaxW, h \in 2 .. MaxH, cols \in Palettes, st \in 1 .. MaxSteps,
      wt \in WaveTypeInputs, b \in 0 .. MaxBorder, bc \in {<<>>, HexGray},
      p \in WaveParams }

WaveInit(argset, rngs) ==
    /\ args \in argset
    /\ pc = "call"
    /\ gradient = <<>>
    /\ smooth_noise = <<>>
    /\ rng \in rngs
    /\ result = <<>>
    /\ err = ""
    /\ calls = 1
    /\ first = <<>>
    /\ rng0 = <<>>

DitherIdle ==
    /\ dargs = <<>>
    /\ dpc = "idle"
    /\ palette = <<>>
    /\ output = <<>>
    /\ cur = <<0, 0>>
    /\ touched = 0
    /\ dresult = <<>>
    /\ derr = ""

OtherIdle ==
    /\ call = <<>>
    /\ ret = <<>>
    /\ pending = {}
    /\ wave_frequency = <<>>

Init == WaveInit(WaveArgs, {0}) /\ DitherIdle /\ OtherIdle

Next == Enter \/ Fill \/ Backfill \/ Compose

Spec == Init /\ [][Next]_vars

---------------------------------------------------------------------------
(* dithering.py: palette loading and nearest colour *)

\* a palette file line: `hash` tells whether the stripped line starts with '#',
\* `digits` are the six hex digits that follow
PaletteLine(hash, digits) == [hash |-> hash, digits |-> digits]

\* mutant: every line is parsed, also those that do not start with '#'
RECURSIVE load_palette_all_lines(_)
load_palette_all_lines(lines) ==
    IF lines = <<>> THEN <<>>
    ELSE <<hex_to_rgb(Head(lines).digits)>> \o load_palette_all_lines(Tail(lines))

RECURSIVE load_palette_from_file(_)
load_palette_from_file(lines) ==
    IF lines = <<>> THEN <<>>
    ELSE IF Head(lines).hash
         THEN <<hex_to_rgb(Head(lines).digits)>> \o load_palette_from_file(Tail(lines))
         ELSE load_palette_from_file(Tail(lines))

\* np.sum((target - color) ** 2); the square root keeps the order of these sums
Dist2(t, c) ==
    (t[1] - c[1]) * (t[1] - c[1]) + (t[2] - c[2]) * (t[2] - c[2])
    + (t[3] - c[3]) * (t[3] - c[3])

\* mutant: `<=` in place of `<`, so that the last of several nearest entries wins
RECURSIVE ClosestLoop_last(_, _, _, _)
ClosestLoop_last(target, pal, i, best) ==
    IF i > Len(pal) THEN best
    ELSE IF i = 1 \/ Dist2(target, pal[i]) <= Dist2(target, best)
         THEN ClosestLoop_last(target, pal, i + 1, pal[i])
         ELSE ClosestLoop_last(target, pal, i + 1, best)

\* the loop of find_closest_color from entry i on, `best` being closest_color so far
RECURSIVE ClosestLoop(_, _, _, _)
ClosestLoop(target, pal, i, best) ==
    IF i > Len(pal) THEN best
    ELSE IF i = 1 \/ Dist2(target, pal[i]) < Dist2(target, best)
         THEN ClosestLoop(target, pal, i + 1, pal[i])
         ELSE ClosestLoop(target, pal, i + 1, best)

find_closest_color(target, pal) == ClosestLoop(target, pal, 1, pal[1])

---------------------------------------------------------------------------
(* dithering.py: the three quantizers, one block of the scan at a time *)

\* the float working buffer holds multiples of 1/16: it is kept in sixteenths
ErrScale == 16

bayer_matrix == << <<1, 9, 3, 11>>, <<13, 5, 15, 7>>, <<4, 12, 2, 10>>, <<16, 8, 14, 6>> >>

ratio == 3

Clip255(v) == Max2(0, Min2(255, v))

DW == dargs.image.w

DH == dargs.image.h

InImage(x, y) == x >= 0 /\ x < DW /\ y >= 0 /\ y < DH

\* np.array(image) for ordered_dither, np.array(image, dtype=np.float32) otherwise
InitialBuffer(d) ==
    IF d.algorithm = "ordered" THEN d.image.px
    ELSE [y \in 0 .. (d.image.h - 1) |-> [x \in 0 .. (d.image.w - 1) |->
            [ch \in 1 .. 3 |-> ErrScale * d.image.px[y][x][ch]]]]

\* tuple(output[y, x].astype(int)): truncation toward zero
current_color(buf, x, y) ==
    [ch \in 1 .. 3 |-> TruncDiv(buf[y][x][ch], ErrScale)]

\* np.array(current_color) + noise on a uint8 array: an int64 result under
\* NumPy >= 2, a wrapped uint8 result under value-based casting (NumPy 1.x)
AddNoise(v, noise, wraps) == IF wraps THEN (v + noise) % 256 ELSE v + noise

dithered_color(d, x, y) ==
    LET noise == bayer_matrix[(x % 4) + 1][(y % 4) + 1] * ratio
    IN  [ch \in 1 .. 3 |-> Clip255(AddNoise(d.image.px[y][x][ch], noise, d.wraps))]

\* ordered_dither lines 76-90: the whole block gets the palette colour
OrderedBlock(d, pal, buf, x, y) ==
    LET closest_color == find_closest_color(dithered_color(d, x, y), pal)
    IN  [yy \in 0 .. (d.image.h - 1) |-> [xx \in 0 .. (d.image.w - 1) |->
            IF /\ yy >= y /\ yy < y + d.step
               /\ xx >= x /\ xx < x + d.step
            THEN closest_color ELSE buf[yy][xx]]]

\* mutant: no error is diffused
FSWeight_none(d, x, y, xx, yy) == 0

\* mutant: the weights of below-left and below exchanged
FSWeight_swapped(d, x, y, xx, yy) ==
    LET s == d.step
        w == d.image.w
        h == d.image.h
    IN  (IF x + s < w /\ xx = x + s /\ yy = y THEN 7 ELSE 0)
        + (IF y + s < h /\ x - s >= 0 /\ xx = x - s /\ yy = y + s THEN 5 ELSE 0)
        + (IF y + s < h /\ xx = x /\ yy = y + s THEN 3 ELSE 0)
        + (IF y + s < h /\ x + s < w /\ xx = x + s /\ yy = y + s THEN 1 ELSE 0)

\* the weights (in sixteenths) that floyd_steinberg_dither adds at (xx, yy)
FSWeight(d, x, y, xx, yy) ==
    LET s == d.step
        w == d.image.w
        h == d.image.h
    IN  (IF x + s < w /\ xx = x + s /\ yy = y THEN 7 ELSE 0)
        + (IF y + s < h /\ x - s >= 0 /\ xx = x - s /\ yy = y + s THEN 3 ELSE 0)
        + (IF y + s < h /\ xx = x /\ yy = y + s THEN 5 ELSE 0)
        + (IF y + s < h /\ x + s < w /\ xx = x + s /\ yy = y + s THEN 1 ELSE 0)

\* mutant: the kernel also writes to the block on the left, which was quantized before
AtkinsonWeight_back(d, x, y, xx, yy) ==
    LET s == d.step
        w == d.image.w
        h == d.image.h
    IN  (IF x + s < w /\ xx = x + s /\ yy = y THEN 2 ELSE 0)
        + (IF x - s >= 0 /\ xx = x - s /\ yy = y THEN 2 ELSE 0)
        + (IF y + s < h /\ xx = x /\ yy = y + s THEN 2 ELSE 0)

\* the weights (in sixteenths: error / 8) that atkinson_dither adds at (xx, yy);
\* the two-right and two-below writes sit inside `if y + step < h`
AtkinsonWeight(d, x, y, xx, yy) ==
    LET s == d.step
        w == d.image.w
        h == d.image.h
    IN  (IF x + s < w /\ xx = x + s /\ yy = y THEN 2 ELSE 0)
        + (IF y + s < h /\ x - s >= 0 /\ xx = x - s /\ yy = y + s THEN 2 ELSE 0)
        + (IF y + s < h /\ xx = x /\ yy = y + s THEN 2 ELSE 0)
        + (IF y + s < h /\ x + s < w /\ xx = x + s /\ yy = y + s THEN 2 ELSE 0)
        + (IF y + s < h /\ x + 2 * s < w /\ xx = x + 2 * s /\ yy = y THEN 2 ELSE 0)
        + (IF y + s < h /\ y + 2 * s < h /\ xx = x /\ yy = y + 2 * s THEN 2 ELSE 0)

Weight(d, x, y, xx, yy) ==
    IF d.algorithm = "floyd_steinberg" THEN FSWeight(d, x, y, xx, yy)
    ELSE AtkinsonWeight(d, x, y, xx, yy)

\* floyd_steinberg_dither lines 115-135, atkinson_dither lines 160-184
DiffuseBlock(d, pal, buf, x, y) ==
    LET cc == current_color(buf, x, y)
        closest_color == find_closest_color(cc, pal)
        error == [ch \in 1 .. 3 |-> cc[ch] - closest_color[ch]]
    IN  [yy \in 0 .. (d.image.h - 1) |-> [xx \in 0 .. (d.image.w - 1) |->
            IF xx = x /\ yy = y
            THEN [ch \in 1 .. 3 |-> ErrScale * closest_color[ch]]
            ELSE [ch \in 1 .. 3 |->
                    buf[yy][xx][ch] + Weight(d, x, y, xx, yy) * error[ch]]]]

\* Image.fromarray(output) / Image.fromarray(np.clip(output, 0, 255).astype(np.uint8))
DitherImage(d, buf) ==
    [w |-> d.image.w, h |-> d.image.h,
     px |-> IF d.algorithm = "ordered" THEN buf
            ELSE [y \in 0 .. (d.image.h - 1) |-> [x \in 0 .. (d.image.w - 1) |->
                    [ch \in 1 .. 3 |->
                        Max2(0, Min2(255 * ErrScale, buf[y][x][ch])) \div ErrScale]]]]

Algorithms == {"ordered", "floyd_steinberg", "atkinson"}

EmptyPaletteError == "ValueError: No valid colors found in palette file"

UnknownAlgorithmError == "ValueError: Unknown dithering algorithm"

\* apply_dithering lines 201-205
DLoad ==
    /\ dpc = "call"
    /\ palette' = load_palette_from_file(dargs.palette_file)
    /\ IF palette' = <<>>
       THEN derr' = EmptyPaletteError /\ dpc' = "raised"
       ELSE derr' = derr /\ dpc' = "dispatch"
    /\ UNCHANGED <<dargs, output, cur, touched, dresult, wvars, hvars>>

\* apply_dithering lines 207-215 and the prologue of the chosen quantizer
DDispatch ==
    /\ dpc = "dispatch"
    /\ IF dargs.algorithm \in Algorithms
       THEN /\ output' = InitialBuffer(dargs)
            /\ touched' = touched + DW * DH
            /\ dpc' = "scan"
            /\ derr' = derr
       ELSE /\ derr' = UnknownAlgorithmError
            /\ dpc' = "raised"
            /\ UNCHANGED <<output, touched>>
    /\ UNCHANGED <<dargs, palette, cur, dresult, wvars, hvars>>

\* for y in range(0, h, step): for x in range(0, w, step)
NextBlock(d, c) ==
    IF c[1] + d.step < d.image.w THEN <<c[1] + d.step, c[2]>>
    ELSE <<0, c[2] + d.step>>

\* one iteration of the scan loop
DBlock ==
    /\ dpc = "scan"
    /\ cur[2] < DH
    /\ output' = IF dargs.algorithm = "ordered"
                 THEN OrderedBlock(dargs, palette, output, cur[1], cur[2])
                 ELSE DiffuseBlock(dargs, palette, output, cur[1], cur[2])
    /\ cur' = NextBlock(dargs, cur)
    /\ touched' = touched + 1
    /\ UNCHANGED <<dargs, dpc, palette, dresult, derr, wvars, hvars>>

\* the return statement of the quantizer
DReturn ==
    /\ dpc = "scan"
    /\ cur[2] >= DH
    /\ dresult' = DitherImage(dargs, output)
    /\ dpc' = "returned"
    /\ UNCHANGED <<dargs, palette, output, cur, touched, derr, wvars, hvars>>

---------------------------------------------------------------------------
(* Inputs of the quantizers *)

MaxDW == 3
MaxDH == 3
MaxDStep == 2
MaxLines == 2

\* source images: a uniform gray, a uniform near-white and a colour ramp
Pattern(name, x, y) ==
    IF name = "gray" THEN <<128, 128, 128>>
    ELSE IF name = "bright" THEN <<250, 250, 250>>
    ELSE <<(80 * x + 40 * y) % 256, 128, (255 - 60 * x - 20 * y) % 256>>

Images ==
    { [w |-> w, h |-> h,
       px |-> [y \in 0 .. (h - 1) |-> [x \in 0 .. (w - 1) |-> Pattern(pat, x, y)]]] :
      w \in 1 .. MaxDW, h \in 1 .. MaxDH, pat \in {"gray", "bright", "ramp"} }

PaletteLines ==
    { PaletteLine(TRUE, HexBlack), PaletteLine(TRUE, HexWhite),
      PaletteLine(TRUE, HexRed), PaletteLine(FALSE, HexGray) }

PaletteFiles == UNION {[1 .. n -> PaletteLines] : n \in 0 .. MaxLines}

DitherArgs ==
    { [image |-> img, palette_file |-> pf, algorithm |-> alg, step |-> st,
       wraps |-> wr] :
      img \in Images, pf \in PaletteFiles, alg \in Algorithms \cup {"bayer"},
      st \in 1 .. MaxDStep, wr \in BOOLEAN }

DInit ==
    /\ dargs \in {d \in DitherArgs : d.wraps => d.algorithm = "ordered"}
    /\ dpc = "call"
    /\ palette = <<>>
    /\ output = <<>>
    /\ cur = <<0, 0>>
    /\ touched = 0
    /\ dresult = <<>>
    /\ derr = ""

WaveIdle ==
    /\ args = <<>>
    /\ pc = "idle"
    /\ gradient = <<>>
    /\ smooth_noise = <<>>
    /\ rng = 0
    /\ result = <<>>
    /\ err = ""
    /\ calls = 0
    /\ first = <<>>
    /\ rng0 = <<>>

DitherInit == DInit /\ WaveIdle /\ OtherIdle

DitherNext == DLoad \/ DDispatch \/ DBlock \/ DReturn

SpecDither == DitherInit /\ [][DitherNext]_vars

---------------------------------------------------------------------------
(* Two calls of generate_wave_variation with the same arguments *)

\* the caller keeps the first image and calls again with identical arguments
CallAgain ==
    /\ pc = "returned"
    /\ calls = 1
    /\ first' = result
    /\ result' = <<>>
    /\ gradient' = <<>>
    /\ smooth_noise' = <<>>
    /\ pc' = "call"
    /\ calls' = 2
    /\ UNCHANGED <<args, rng, err, rng0, dvars, hvars>>

\* other code of the process draws from or reseeds the process-wide generator
OtherUse ==
    /\ pc = "returned"
    /\ calls = 1
    /\ rng' \in RngStates \ {rng}
    /\ UNCHANGED <<args, pc, gradient, smooth_noise, result, err, calls, first, rng0,
                   dvars, hvars>>

TwiceArgs ==
    {a \in WaveArgs : /\ a.width = MaxW /\ a.height = MaxH
                      /\ a.border = 0 /\ a.border_color = <<>>
                      /\ a.steps = MaxSteps /\ Len(a.colors) = MaxPal}

TwiceInit == WaveInit(TwiceArgs, RngStates) /\ DitherIdle /\ OtherIdle

TwiceNext == Next \/ CallAgain \/ OtherUse

SpecTwice == TwiceInit /\ [][TwiceNext]_vars

---------------------------------------------------------------------------
(* Properties of generate_wave_variation *)

AfterBackfill == pc \in {"compose", "returned"}

NoSentinel(g) == \A y \in DOMAIN g : \A x \in DOMAIN g[y] : g[y][x] # Sentinel

\* C1 (as stated): after the backfill pass no pixel of the gradient region is
\* the unfilled sentinel colour (0,0,0)
C1_NoSentinelAfterBackfill == AfterBackfill => NoSentinel(gradient)

\* C1 (amended): after the backfill pass a pixel of the gradient region is
\* (0,0,0) only when the palette's first colour is #000000
C1_SentinelOnlyIfFirstBlack ==
    (AfterBackfill /\ top_color(args) # Sentinel) => NoSentinel(gradient)

\* the backfill pass has replaced a sentinel pixel left by the fill pass
C1_Witness ==
    /\ pc = "compose"
    /\ top_color(args) # Sentinel
    /\ ~NoSentinel(FillAll(args, smooth_noise))
    /\ NoSentinel(gradient)

\* the palette slice that the code averages for a step
SliceOfStep(a, step) ==
    PySlice(a.colors, start_color_idx(a, step),
            Max2(start_color_idx(a, step) + 1, end_color_idx(a, step)))

InSliceRange(a, step, rgb) ==
    \A ch \in 1 .. 3 :
        /\ \E i \in DOMAIN SliceOfStep(a, step) :
              hex_to_rgb(SliceOfStep(a, step)[i])[ch] <= rgb[ch]
        /\ \E i \in DOMAIN SliceOfStep(a, step) :
              hex_to_rgb(SliceOfStep(a, step)[i])[ch] >= rgb[ch]

\* C3: every channel of every pixel of the finished gradient lies between the
\* minimum and the maximum of that channel over the palette slice of the pixel's step
C3_PixelInSliceRange ==
    AfterBackfill =>
        \A y \in Rows(args) : \A x \in Cols(args) :
            InSliceRange(args, StepOf(args, smooth_noise, x, y), gradient[y][x])

\* C4: with jitter disabled or a seed supplied, the second call returns the image
\* of the first, whatever the generator states at the two entries
C4_SameImage ==
    (/\ calls = 2
     /\ pc = "returned"
     /\ (args.organic_jitter = RZero \/ args.random_seed # <<>>))
    => result = first

\* a seeded jitter curve displaced a column, from two different generator states
C4_Witness ==
    /\ calls = 2
    /\ pc = "returned"
    /\ args.random_seed # <<>>
    /\ smooth_noise # <<>>
    /\ rng0[1] # rng0[2]
    /\ \E x \in Cols(args) : JitterOffset(args, smooth_noise, x) # 0
    /\ result = first

FrameColor(a) ==
    IF a.border_color # <<>> THEN hex_to_rgb(a.border_color) ELSE hex_to_rgb(a.colors[1])

\* C5: with border > 0 the returned image is width x height, its frame is
\* border_color (the palette's first colour when unset) and the gradient region
\* sits at offset (border, border)
C5_FramedImage ==
    (pc = "returned" /\ args.border > 0) =>
        /\ result.w = args.width
        /\ result.h = args.height
        /\ result.px = Framed(args, gradient, FrameColor(args)).px

GeometryInvalid(a) == a.width <= 2 * a.border \/ a.height <= 2 * a.border

UnknownWaveTypeError == "ValueError: Unknown wave type"

\* C7: a wave type outside the closed set makes the call fail with an
\* unknown-wave-type error and return no image
C7_UnknownTypeRejected ==
    (/\ args.wave_type \notin WaveTypes
     /\ ~GeometryInvalid(args)
     /\ pc \in {"raised", "returned"}) =>
        /\ pc = "raised"
        /\ err = UnknownWaveTypeError
        /\ result = <<>>

\* C9: palette [#000000, #FFFFFF], wave type 0.0, steps 2, no border, no jitter,
\* even height: the top half of the rows is black and the bottom half white
C9_TwoBands ==
    (/\ pc = "returned"
     /\ args.colors = <<HexBlack, HexWhite>>
     /\ args.wave_type = "0.0"
     /\ args.steps = 2
     /\ args.border = 0
     /\ args.organic_jitter = RZero
     /\ args.height % 2 = 0)
    => /\ result.w = args.width
       /\ result.h = args.height
       /\ \A y \in 0 .. (args.height - 1) : \A x \in 0 .. (args.width - 1) :
            result.px[y][x] = IF 2 * y < args.height THEN <<0, 0, 0>>
                              ELSE <<255, 255, 255>>

\* the spec's scenario: four rows, two black over two white
C9_Witness ==
    /\ pc = "returned"
    /\ args.colors = <<HexBlack, HexWhite>>
    /\ args.wave_type = "0.0"
    /\ args.steps = 2
    /\ args.border = 0
    /\ args.organic_jitter = RZero
    /\ args.width = 4
    /\ args.height = 4
    /\ result.px[1][3] = <<0, 0, 0>>
    /\ result.px[2][0] = <<255, 255, 255>>

\* C10: with a palette of one colour c every pixel of the gradient region is c,
\* for every wave type, steps and wave parameters
C10_SingleColour ==
    (pc \in {"backfill", "compose", "returned"} /\ Len(args.colors) = 1) =>
        \A y \in Rows(args) : \A x \in Cols(args) :
            gradient[y][x] = hex_to_rgb(args.colors[1])

\* a one-colour palette under a wave that displaces a column, several steps
C10_Witness ==
    /\ pc = "returned"
    /\ args.colors = <<HexGray>>
    /\ args.steps > 1
    /\ \E x \in Cols(args) : wave_offset(args, smooth_noise, x) # 0
    /\ \A y \in Rows(args) : \A x \in Cols(args) : gradient[y][x] = <<128, 128, 128>>

---------------------------------------------------------------------------
(* Properties of the quantizers *)

InPalette(rgb, pal) == \E i \in DOMAIN pal : pal[i] = rgb

\* C2: every pixel of the image a quantizer returns is a colour of the palette
C2_OutputInPalette ==
    dpc = "returned" =>
        \A y \in 0 .. (dresult.h - 1) : \A x \in 0 .. (dresult.w - 1) :
            InPalette(dresult.px[y][x], palette)

NoColourLine(d) == \A i \in DOMAIN d.palette_file : ~d.palette_file[i].hash

\* C8: a palette file without a usable colour makes apply_dithering raise the
\* empty-palette error before any pixel is read or written, whatever the algorithm
C8_EmptyPaletteRejected ==
    (NoColourLine(dargs) /\ dpc # "call") =>
        /\ dpc = "raised"
        /\ derr = EmptyPaletteError
        /\ touched = 0
        /\ output = <<>>
        /\ dresult = <<>>

\* a file with lines but no colour, and an algorithm token that is unknown too
C8_Witness ==
    /\ dpc = "raised"
    /\ derr = EmptyPaletteError
    /\ Len(dargs.palette_file) > 0
    /\ dargs.algorithm \notin Algorithms
    /\ touched = 0

BlackWhite == << <<0, 0, 0>>, <<255, 255, 255>> >>

CountOf(img, rgb) ==
    Cardinality({c \in (0 .. (img.w - 1)) \X (0 .. (img.h - 1)) : img.px[c[2]][c[1]] = rgb})

\* floyd_steinberg_dither has returned for a uniform #808080 image, block size 1
\* and the palette [#000000, #FFFFFF]
GrayFSReturned ==
    /\ dpc = "returned"
    /\ dargs.algorithm = "floyd_steinberg"
    /\ dargs.step = 1
    /\ palette = BlackWhite
    /\ \A y \in 0 .. (DH - 1) : \A x \in 0 .. (DW - 1) :
           dargs.image.px[y][x] = <<128, 128, 128>>

Balanced(img) ==
    /\ CountOf(img, <<0, 0, 0>>) > 0
    /\ CountOf(img, <<255, 255, 255>>) > 0
    /\ Abs(CountOf(img, <<0, 0, 0>>) - CountOf(img, <<255, 255, 255>>)) <= img.w

\* C11 (as stated): the uniform gray image of any size w x h comes back with both
\* black and white pixels, their counts differing by at most w
C11_GrayBalanced == GrayFSReturned => Balanced(dresult)

\* C11 (amended): the same for every image of at least two pixels; a single
\* pixel can only come back in one colour
C11_GrayBalancedFromTwoPixels == (GrayFSReturned /\ DW * DH >= 2) => Balanced(dresult)

C11_Witness ==
    /\ GrayFSReturned
    /\ DW = MaxDW
    /\ DH = MaxDH
    /\ Balanced(dresult)

---------------------------------------------------------------------------
(* find_closest_color called on its own *)

MaxClosestPal == 3

\* channel values of the targets: the quantizers also pass accumulated values
\* below 0 and above 255
TargetChannels == {-20, 0, 128, 300}

ClosestColours == {<<0, 0, 0>>, <<255, 255, 255>>, <<255, 0, 0>>, <<0, 255, 0>>}

ClosestCalls ==
    { [fn |-> "find_closest_color", target_color |-> t, palette |-> p] :
      t \in TargetChannels \X TargetChannels \X TargetChannels,
      p \in UNION {[1 .. n -> ClosestColours] : n \in 1 .. MaxClosestPal} }

ClosestInit ==
    /\ call \in ClosestCalls
    /\ ret = <<>>
    /\ pending = {}
    /\ wave_frequency = <<>>
    /\ WaveIdle
    /\ DitherIdle

\* lines 30-43
CallClosest ==
    /\ call # <<>>
    /\ call.fn = "find_closest_color"
    /\ ret = <<>>
    /\ ret' = <<find_closest_color(call.target_color, call.palette)>>
    /\ UNCHANGED <<call, pending, wave_frequency, wvars, dvars>>

SpecClosest == ClosestInit /\ [][CallClosest]_vars

Nearest(t, pal, i) == \A j \in DOMAIN pal : Dist2(t, pal[i]) <= Dist2(t, pal[j])

\* C12: find_closest_color returns a palette entry at minimal distance from the
\* target, and of several such entries the one with the smallest index
C12_NearestFirst ==
    (call # <<>> /\ ret # <<>>) =>
        \E i \in DOMAIN call.palette :
            /\ ret[1] = call.palette[i]
            /\ Nearest(call.target_color, call.palette, i)
            /\ \A j \in 1 .. (i - 1) : ~Nearest(call.target_color, call.palette, j)

\* two different colours tie for the minimum, neither being the first entry
C12_Witness ==
    /\ call # <<>>
    /\ ret # <<>>
    /\ \E i, j \in DOMAIN call.palette :
           /\ 1 < i
           /\ i < j
           /\ call.palette[i] # call.palette[j]
           /\ Nearest(call.target_color, call.palette, i)
           /\ Nearest(call.target_color, call.palette, j)
           /\ ~Nearest(call.target_color, call.palette, 1)
           /\ ret[1] = call.palette[i]

---------------------------------------------------------------------------
(* comprehensive_wave_generator.py main(): command line and preset *)

MaxGiven == 2

\* the fields a preset may supply
PresetFields ==
    {"wave_type", "wave_amplitude", "amplitude_scale", "steps", "border",
     "border_color", "center_shift", "asymmetry", "organic_jitter", "random_seed"}

\* the defaults of the argument parser (<<>> stands for None)
ParserDefault ==
    [wave_type |-> <<>>, wave_amplitude |-> <<1, 5>>, amplitude_scale |-> <<1, 1>>,
     steps |-> 20, border |-> 100, border_color |-> "#FFFFFF",
     center_shift |-> <<0, 1>>, asymmetry |-> <<0, 1>>, organic_jitter |-> <<0, 1>>,
     random_seed |-> <<>>]

\* two values a user may type for each option; where the option's type allows
\* it, the first is the value that is also the parser's default
ExplicitValue ==
    [wave_type |-> << <<"0.0">>, <<"1A">> >>,
     wave_amplitude |-> << <<1, 5>>, <<1, 2>> >>,
     amplitude_scale |-> << <<1, 1>>, <<2, 1>> >>,
     steps |-> <<20, 12>>,
     border |-> <<100, 0>>,
     border_color |-> <<"#FFFFFF", "#000000">>,
     center_shift |-> << <<0, 1>>, <<1, 4>> >>,
     asymmetry |-> << <<0, 1>>, <<1, 1>> >>,
     organic_jitter |-> << <<0, 1>>, <<1, 20>> >>,
     random_seed |-> << <<0>>, <<7>> >>]

\* the values of a preset of presets/wave_styles.json, after float(), int(), str()
PresetValue ==
    [wave_type |-> <<"4A">>, wave_amplitude |-> <<3, 10>>, amplitude_scale |-> <<3, 1>>,
     steps |-> 8, border |-> 50, border_color |-> "#808080",
     center_shift |-> <<-1, 4>>, asymmetry |-> <<-1, 1>>, organic_jitter |-> <<1, 10>>,
     random_seed |-> <<3>>]

\* the options typed on the command line: at most MaxGiven of them
GivenOptions ==
    UNION { { [f \in S |-> ExplicitValue[f][c[f]]] : c \in [S -> {1, 2}] } :
            S \in {T \in SUBSET PresetFields : Cardinality(T) <= MaxGiven} }

\* no --preset, a name the file does not hold, a preset with at most one key,
\* and a preset with every key
Presets ==
    {[named |-> FALSE, found |-> FALSE, values |-> [f \in {} |-> 0]],
     [named |-> TRUE, found |-> FALSE, values |-> [f \in {} |-> 0]]}
    \cup { [named |-> TRUE, found |-> TRUE, values |-> [f \in K |-> PresetValue[f]]] :
           K \in {T \in SUBSET PresetFields : Cardinality(T) <= 1} \cup {PresetFields} }

CliCalls == { [fn |-> "main", given |-> g, preset |-> p] : g \in GivenOptions, p \in Presets }

\* parser.parse_args(): the typed value, else the default
parse_args(c) ==
    [f \in PresetFields |-> IF f \in DOMAIN c.given THEN c.given[f] ELSE ParserDefault[f]]

\* lines 293-312: a preset value replaces every field that holds the parser default
ApplyPreset(c, parsed) ==
    [f \in PresetFields |->
        IF parsed[f] = ParserDefault[f] /\ f \in DOMAIN c.preset.values
        THEN c.preset.values[f] ELSE parsed[f]]

PresetNotFound == "SystemExit: Preset not found or presets file invalid."

WaveTypeRequired == "SystemExit: --wave-type is required unless a preset supplies it."

\* lines 280-329: what main() passes to generate_wave_variation, or how it exits
main(c) ==
    LET parsed == parse_args(c)
        a == IF c.preset.named THEN ApplyPreset(c, parsed) ELSE parsed
    IN  IF c.preset.named /\ ~c.preset.found THEN [exit |-> PresetNotFound, passed |-> <<>>]
        ELSE IF a.wave_type = <<>> THEN [exit |-> WaveTypeRequired, passed |-> <<>>]
        ELSE [exit |-> "", passed |-> a]

CliInit ==
    /\ call \in CliCalls
    /\ ret = <<>>
    /\ pending = {}
    /\ wave_frequency = <<>>
    /\ WaveIdle
    /\ DitherIdle

Main ==
    /\ call # <<>>
    /\ call.fn = "main"
    /\ ret = <<>>
    /\ ret' = <<main(call)>>
    /\ UNCHANGED <<call, pending, wave_frequency, wvars, dvars>>

SpecCli == CliInit /\ [][Main]_vars

\* C13: every option typed on the command line reaches generate_wave_variation
\* with the typed value, whatever the preset holds
C13_ExplicitWins ==
    (call # <<>> /\ ret # <<>> /\ ret[1].exit = "") =>
        \A f \in DOMAIN call.given : ret[1].passed[f] = call.given[f]

---------------------------------------------------------------------------
(* Properties of one block of the error-diffusion scan *)

\* a block of the scan is being processed by the named quantizer
Scanning(alg) == dpc = "scan" /\ dargs.algorithm = alg /\ cur[2] < DH

\* the error of the block at cur: its truncated colour minus the palette colour
BlockError ==
    LET cc == current_color(output, cur[1], cur[2])
        pc_ == find_closest_color(cc, palette)
    IN  [ch \in 1 .. 3 |-> cc[ch] - pc_[ch]]

\* sixteenths of the error owed to cell (xx, yy) by the Floyd-Steinberg kernel
FSShare(xx, yy) ==
    LET x == cur[1]
        y == cur[2]
        s == dargs.step
    IN  IF xx = x + s /\ yy = y THEN 7
        ELSE IF xx = x - s /\ yy = y + s THEN 3
        ELSE IF xx = x /\ yy = y + s THEN 5
        ELSE IF xx = x + s /\ yy = y + s THEN 1
        ELSE 0

\* block origins come in row-major order: c2 is the origin right after c1
RowMajorNext(c1, c2) ==
    LET s == dargs.step
        origins == {c \in (0 .. (DW - 1)) \X (0 .. (DH - 1)) : c[1] % s = 0 /\ c[2] % s = 0}
        later(c) == c[2] > c1[2] \/ (c[2] = c1[2] /\ c[1] > c1[1])
    IN  IF \E c \in origins : later(c)
        THEN /\ c2 \in origins
             /\ later(c2)
             /\ \A c \in origins : later(c) =>
                    (c[2] > c2[2] \/ (c[2] = c2[2] /\ c[1] >= c2[1]))
        ELSE c2[2] >= DH

\* C14: a Floyd-Steinberg block adds 7/16, 3/16, 5/16 and 1/16 of its error to
\* the right, below-left, below and below-right blocks that are inside the image,
\* sets its own cell to the palette colour, changes no other cell, and the scan
\* goes on with the next block in row-major order
C14_FSBlockStep ==
    [][ Scanning("floyd_steinberg") =>
            /\ \A yy \in 0 .. (DH - 1) : \A xx \in 0 .. (DW - 1) : \A ch \in 1 .. 3 :
                  output'[yy][xx][ch] =
                      IF xx = cur[1] /\ yy = cur[2]
                      THEN ErrScale * find_closest_color(
                               current_color(output, cur[1], cur[2]), palette)[ch]
                      ELSE output[yy][xx][ch] + FSShare(xx, yy) * BlockError[ch]
            /\ RowMajorNext(cur, cur') ]_vars

\* the block (1, 0) of an image three wide has been processed with a non-zero
\* error: its four forward neighbours are inside the image and have changed
C14_Witness ==
    /\ dpc = "scan"
    /\ dargs.algorithm = "floyd_steinberg"
    /\ dargs.step = 1
    /\ DW = 3
    /\ DH >= 2
    /\ cur = <<2, 0>>
    /\ InPalette(current_color(output, 1, 0), palette)
    /\ \A c \in {<<2, 0>>, <<0, 1>>, <<1, 1>>, <<2, 1>>} :
           output[c[2]][c[1]] # [ch \in 1 .. 3 |-> ErrScale * dargs.image.px[c[2]][c[1]][ch]]

\* sixteenths of the error owed to cell (xx, yy) by the Atkinson kernel: 1/8 each
AtkinsonShare(xx, yy) ==
    LET x == cur[1]
        y == cur[2]
        s == dargs.step
    IN  IF \/ xx = x + s /\ yy = y
           \/ xx = x - s /\ yy = y + s
           \/ xx = x /\ yy = y + s
           \/ xx = x + s /\ yy = y + s
           \/ xx = x + 2 * s /\ yy = y
           \/ xx = x /\ yy = y + 2 * s
        THEN 2 ELSE 0

\* C15: an Atkinson block adds 1/8 of its error to each of the neighbours right,
\* below-left, below, below-right, two-right and two-below that is inside the
\* image, whichever of the others are inside, and nothing anywhere else
C15_AtkinsonBlockStep ==
    [][ Scanning("atkinson") =>
            \A yy \in 0 .. (DH - 1) : \A xx \in 0 .. (DW - 1) : \A ch \in 1 .. 3 :
                (xx # cur[1] \/ yy # cur[2]) =>
                    output'[yy][xx][ch] =
                        output[yy][xx][ch] + AtkinsonShare(xx, yy) * BlockError[ch] ]_vars

---------------------------------------------------------------------------
(* The fill loop of generate_wave_variation, one pixel at a time *)

MaxAnyW == 3
MaxAnyH == 2

\* mutant: wave_frequency is assigned on the left half of the canvas only, so
\* that the right half works with whatever an earlier iteration left in it
FillBody_carry(a, noise, wf, x, y) ==
    LET w == WaveShape(a, x)
        wf2 == IF w.bound /\ 2 * x < grad_width(a) THEN <<w.freq2>> ELSE wf
    IN  IF wf2 = <<>> THEN [raised |-> TRUE, wave_frequency |-> wf2, color |-> Sentinel]
        ELSE
            LET offset ==
                    TruncDiv(w.amp[1] * grad_height(a) * Sin2(wf2[1], x, grad_width(a)),
                             w.amp[2] * SinScale)
                    + JitterOffset(a, noise, x)
                ay == IF a.wave_type \in FlipTypes THEN y - offset ELSE y + offset
                step == Max2(0, Min2(a.steps - 1, TruncDiv(ay * a.steps, grad_height(a))))
            IN  [raised |-> FALSE, wave_frequency |-> wf2, color |-> StepColor(a, step)]

\* lines 78-241, the body of the loop for the pixel (x, y): wf is the local
\* wave_frequency as the previous iteration left it (<<>> while unassigned);
\* current_amp is reset by every iteration (line 84)
FillBody(a, noise, wf, x, y) ==
    LET w == WaveShape(a, x)
        wf2 == IF w.bound THEN <<w.freq2>> ELSE wf
    IN  IF wf2 = <<>> THEN [raised |-> TRUE, wave_frequency |-> wf2, color |-> Sentinel]
        ELSE
            LET offset ==
                    TruncDiv(w.amp[1] * grad_height(a) * Sin2(wf2[1], x, grad_width(a)),
                             w.amp[2] * SinScale)
                    + JitterOffset(a, noise, x)
                ay == IF a.wave_type \in FlipTypes THEN y - offset ELSE y + offset
                step == Max2(0, Min2(a.steps - 1, TruncDiv(ay * a.steps, grad_height(a))))
            IN  [raised |-> FALSE, wave_frequency |-> wf2, color |-> StepColor(a, step)]

\* for x in range(grad_width): for y in range(grad_height): the loop from its
\* k-th iteration on, g being the canvas and wf the local wave_frequency so far
RECURSIVE ColumnMajorFrom(_, _, _, _, _)
ColumnMajorFrom(a, noise, k, g, wf) ==
    IF k >= grad_width(a) * grad_height(a) THEN [raised |-> FALSE, gradient |-> g]
    ELSE LET x == k \div grad_height(a)
             y == k % grad_height(a)
             b == FillBody(a, noise, wf, x, y)
         IN  IF b.raised THEN [raised |-> TRUE, gradient |-> g]
             ELSE ColumnMajorFrom(a, noise, k + 1,
                                  [g EXCEPT ![y][x] = b.color], b.wave_frequency)

ColumnMajor(a, noise) == ColumnMajorFrom(a, noise, 0, Zeros(a), <<>>)

\* one iteration of the loop body, for any pixel that was not filled yet
FillPixel ==
    /\ pc = "fill"
    /\ \E p \in pending :
          LET b == FillBody(args, smooth_noise, wave_frequency, p[1], p[2])
          IN  /\ wave_frequency' = b.wave_frequency
              /\ IF b.raised
                 THEN /\ err' = UnboundError
                      /\ pc' = "raised"
                      /\ UNCHANGED <<gradient, pending>>
                 ELSE /\ gradient' = [gradient EXCEPT ![p[2]][p[1]] = b.color]
                      /\ pending' = pending \ {p}
                      /\ pc' = IF pending' = {} THEN "backfill" ELSE "fill"
                      /\ err' = err
    /\ UNCHANGED <<args, smooth_noise, rng, result, calls, first, rng0, dvars, call, ret>>

AnyTypes == {"3A", "3D", "4B", "5A"}

AnyArgs ==
    { [width |-> MaxAnyW, height |-> MaxAnyH, colors |-> <<HexRed, HexBlack>>,
       steps |-> MaxSteps, wave_type |-> wt, border |-> 0, border_color |-> <<>>,
       wave_amplitude |-> p.wave_amplitude, amplitude_scale |-> p.amplitude_scale,
       center_shift |-> p.center_shift, asymmetry |-> p.asymmetry,
       organic_jitter |-> p.organic_jitter, random_seed |-> p.random_seed] :
      wt \in AnyTypes, p \in {q \in WaveParams : q.organic_jitter # RZero} }

AnyInit ==
    /\ WaveInit(AnyArgs, {0})
    /\ DitherIdle
    /\ call = <<>>
    /\ ret = <<>>
    /\ wave_frequency = <<>>
    /\ pending = Cols(args) \X Rows(args)

AnyNext == Enter \/ FillPixel \/ Backfill \/ Compose

SpecAnyOrder == AnyInit /\ [][AnyNext]_vars

\* C16: whatever the order in which the pixels were filled, the canvas after the
\* fill pass and after the backfill pass is the one the column-major loop
\* produces, and the fill fails exactly when the column-major loop fails
C16_AnyOrderSameCanvas ==
    /\ pc = "raised" => ColumnMajor(args, smooth_noise).raised
    /\ pc = "backfill" =>
          /\ ~ColumnMajor(args, smooth_noise).raised
          /\ gradient = ColumnMajor(args, smooth_noise).gradient
    /\ pc = "compose" =>
          gradient = BackfillAll(args, ColumnMajor(args, smooth_noise).gradient)

\* the last pixel filled was the first one of the column-major order, on a canvas
\* with a jitter curve and a wave that moves some column
C16_Witness ==
    /\ pc = "backfill"
    /\ pending = {}
    /\ smooth_noise # <<>>
    /\ \E x \in Cols(args) : wave_offset(args, smooth_noise, x) # 0
    /\ \E x1, x2 \in Cols(args) : WaveShape(args, x1).freq2 # WaveShape(args, x2).freq2
    /\ wave_frequency = <<WaveShape(args, 0).freq2>>
    /\ gradient = ColumnMajor(args, smooth_noise).gradient

\* (xx, yy) is the origin of a block
IsOrigin(xx, yy) == xx % dargs.step = 0 /\ yy % dargs.step = 0

\* the block at (x1, y1) comes before the block at (x2, y2) in the row-major scan
Before(x1, y1, x2, y2) == y1 < y2 \/ (y1 = y2 /\ x1 < x2)

\* C17: while floyd_steinberg_dither or atkinson_dither processes a block, every
\* cell it adds error to is the origin of a block that the scan visits later; a
\* block visited before holds its palette colour and is not changed any more
C17_ErrorGoesForward ==
    [][ (Scanning("floyd_steinberg") \/ Scanning("atkinson")) =>
            \A yy \in 0 .. (DH - 1) : \A xx \in 0 .. (DW - 1) :
                /\ ( /\ (xx # cur[1] \/ yy # cur[2])
                     /\ \/ Weight(dargs, cur[1], cur[2], xx, yy) # 0
                        \/ output'[yy][xx] # output[yy][xx] )
                   => (IsOrigin(xx, yy) /\ Before(cur[1], cur[2], xx, yy))
                /\ (IsOrigin(xx, yy) /\ Before(xx, yy, cur[1], cur[2]))
                   => /\ output'[yy][xx] = output[yy][xx]
                      /\ \E i \in DOMAIN palette :
                            output[yy][xx] = [ch \in 1 .. 3 |-> ErrScale * palette[i][ch]] ]_vars

\* the Atkinson scan has reached the second row of an image at least two wide,
\* and error has arrived at the block it is about to quantize
C17_Witness ==
    /\ dpc = "scan"
    /\ dargs.algorithm = "atkinson"
    /\ dargs.step = 1
    /\ DW >= 2
    /\ cur[2] = 1
    /\ cur[1] = 1
    /\ output[1][1] # [ch \in 1 .. 3 |-> ErrScale * dargs.image.px[1][1][ch]]
    /\ \E i \in DOMAIN palette : output[0][0] = [ch \in 1 .. 3 |-> ErrScale * palette[i][ch]]

\* the sum over the first k cells of the buffer (row by row) of channel ch
RECURSIVE SumCells(_, _, _)
SumCells(buf, ch, k) ==
    IF k = 0 THEN 0
    ELSE buf[(k - 1) \div DW][(k - 1) % DW][ch] + SumCells(buf, ch, k - 1)

BufferSum(buf, ch) == SumCells(buf, ch, DW * DH)

\* sixteenths between the accumulated value of the block at cur and its palette colour
AccumulatedDifference(ch) ==
    output[cur[2]][cur[1]][ch]
    - ErrScale * find_closest_color(current_color(output, cur[1], cur[2]), palette)[ch]

FourInside ==
    /\ cur[1] - dargs.step >= 0
    /\ cur[1] + dargs.step < DW
    /\ cur[2] + dargs.step < DH

SixInside ==
    /\ FourInside
    /\ cur[1] + 2 * dargs.step < DW
    /\ cur[2] + 2 * dargs.step < DH

\* C18: a Floyd-Steinberg block with its four forward neighbours inside the image
\* leaves the sum of every channel of the working buffer unchanged; an Atkinson
\* block with its six neighbours inside lowers it by 2/8 of the difference
\* between the block's accumulated value and its palette colour
C18_ErrorConserved ==
    [][ /\ (Scanning("floyd_steinberg") /\ FourInside) =>
              \A ch \in 1 .. 3 : BufferSum(output', ch) = BufferSum(output, ch)
        /\ (Scanning("atkinson") /\ SixInside) =>
              \A ch \in 1 .. 3 :
                  4 * (BufferSum(output, ch) - BufferSum(output', ch))
                      = AccumulatedDifference(ch) ]_vars

---------------------------------------------------------------------------
(* The colour of a step (lines 236-239) as a function of the palette length, *)
(* the step count and the step.                                              *)

\* the i-th colour of a ramp palette: #RR0000 with RR = 15 * i
RampColour(i) == <<(15 * i) \div 16, (15 * i) % 16, 0, 0, 0, 0>>

SliceCalls ==
    { [fn |-> "step_color", colors |-> [i \in 1 .. P |-> RampColour(i)],
       steps |-> S, step |-> k] :
      P \in 1 .. MaxSlicePal, S \in 1 .. MaxSliceSteps, k \in 0 .. (MaxSliceSteps - 1) }

SliceInit ==
    /\ call \in {c \in SliceCalls : c.step < c.steps}
    /\ ret = <<>>
    /\ pending = {}
    /\ wave_frequency = <<>>
    /\ WaveIdle
    /\ DitherIdle

\* lines 237-239
CallStepColor ==
    /\ call # <<>>
    /\ call.fn = "step_color"
    /\ ret = <<>>
    /\ ret' = <<StepColor(call, call.step)>>
    /\ UNCHANGED <<call, pending, wave_frequency, wvars, dvars>>

SpecSlice == SliceInit /\ [][CallStepColor]_vars

RECURSIVE ChannelSum(_, _)
ChannelSum(cols, ch) ==
    IF cols = <<>> THEN 0
    ELSE hex_to_rgb(Head(cols))[ch] + ChannelSum(Tail(cols), ch)

\* the truncated channel-wise mean of the palette entries with 0-based indices
\* from lo up to but excluding hi
MeanOfEntries(cols, lo, hi) ==
    [ch \in 1 .. 3 |-> ChannelSum(SubSeq(cols, lo + 1, hi), ch) \div (hi - lo)]

FloorIndex(n, c) == (n * Len(c.colors)) \div c.steps

\* C20: the colour of step k is the truncated channel-wise mean of the palette
\* entries from floor(k*P/S) up to but excluding
\* max(floor(k*P/S) + 1, floor((k+1)*P/S))
C20_ExactSliceMean ==
    (call # <<>> /\ ret # <<>>) =>
        ret[1] = MeanOfEntries(call.colors, FloorIndex(call.step, call),
                               Max2(FloorIndex(call.step, call) + 1,
                                    FloorIndex(call.step + 1, call)))


\* the palette indices that colors[start_idx:end_idx] selects for a step, the
\* end index raised to start_idx + 1 as in average_palette_slice
SliceIndices(c, k) ==
    {i \in 0 .. (Len(c.colors) - 1) :
        /\ start_color_idx(c, k) <= i
        /\ i < Max2(start_color_idx(c, k) + 1, end_color_idx(c, k))}

\* C21: the slices of steps 0..S-1 tile the palette: each is non-empty and
\* inside 0..P-1, the start indices are non-decreasing, every palette index is
\* in some slice, and for S <= P the slices are pairwise disjoint
C21_SlicesTile ==
    (call # <<>> /\ ret # <<>>) =>
        LET P == Len(call.colors)
            S == call.steps
        IN  /\ \A k \in 0 .. (S - 1) :
                  /\ SliceIndices(call, k) # {}
                  /\ start_color_idx(call, k) >= 0
                  /\ Max2(start_color_idx(call, k) + 1, end_color_idx(call, k)) <= P
            /\ \A k \in 0 .. (S - 2) :
                  start_color_idx(call, k) <= start_color_idx(call, k + 1)
            /\ \A i \in 0 .. (P - 1) : \E k \in 0 .. (S - 1) : i \in SliceIndices(call, k)
            /\ S <= P =>
                  \A j, k \in 0 .. (S - 1) :
                      j # k => SliceIndices(call, j) \cap SliceIndices(call, k) = {}

---------------------------------------------------------------------------
(* One column of the fill loop (lines 76-234): the amplitude, the frequency, *)
(* the pixel offset and the band of every row, as functions of the arguments *)
(* and the column.                                                           *)

MaxColW == 6

MaxColH == 3

\* wave_amplitude with amplitude_scale, center_shift, asymmetry, organic_jitter
ColumnParams ==
    { WaveParam(p[1], p[2], cs, asy, oj, <<>>) :
      p \in {<<<<1, 5>>, ROne>>, <<<<2, 1>>, <<12, 1>>>>},
      cs \in {RZero, <<1, 4>>, <<-1, 4>>}, asy \in {-1, 0, 1}, oj \in {RZero, <<2, 1>>} }

ColumnArgs(widths, heights) ==
    { [width |-> w, height |-> h, colors |-> <<HexRed, HexBlack>>, steps |-> MaxSteps,
       wave_type |-> wt, border |-> 0, border_color |-> <<>>,
       wave_amplitude |-> p.wave_amplitude, amplitude_scale |-> p.amplitude_scale,
       center_shift |-> p.center_shift, asymmetry |-> p.asymmetry,
       organic_jitter |-> p.organic_jitter, random_seed |-> p.random_seed] :
      w \in widths, h \in heights, wt \in WaveTypes, p \in ColumnParams }

\* the jitter curve that lines 59-73 prepare for these arguments
NoiseOf(a, s) == IF JitterOn(a) THEN SmoothNoise(a, s) ELSE <<>>

\* generator states at entry: the knots rise from negative to positive, or are
\* both negative
NoiseStates == {0, 2}

ColumnInit ==
    /\ \E a \in ColumnArgs(1 .. MaxColW, 2 .. MaxColH) :
          \E x \in Cols(a), s \in NoiseStates :
              call = [fn |-> "column", a |-> a, smooth_noise |-> NoiseOf(a, s), x |-> x]
    /\ ret = <<>>
    /\ pending = {}
    /\ wave_frequency = <<>>
    /\ WaveIdle
    /\ DitherIdle

\* lines 78-234 for the rows of one column
ColumnResult(a, noise, x) ==
    [wave_type |-> a.wave_type,
     center_shift |-> a.center_shift,
     current_amp |-> WaveShape(a, x).amp,
     freq2 |-> WaveShape(a, x).freq2,
     wave_offset |-> wave_offset(a, noise, x),
     jitter_offset |-> JitterOffset(a, noise, x),
     adjusted_y |-> [y \in Rows(a) |-> adjusted_y(a, noise, x, y)],
     step |-> [y \in Rows(a) |-> StepOf(a, noise, x, y)]]

CallColumn ==
    /\ call # <<>>
    /\ call.fn = "column"
    /\ ret = <<>>
    /\ ret' = <<ColumnResult(call.a, call.smooth_noise, call.x)>>
    /\ UNCHANGED <<call, pending, wave_frequency, wvars, dvars>>

\* the flip-tagged variant of a directional, transition or combined variant
FlipPartner == [wt \in {"1A", "1B", "2A", "2B", "3A"} |->
                   IF wt = "1A" THEN "1C" ELSE IF wt = "1B" THEN "1D"
                   ELSE IF wt = "2A" THEN "2C" ELSE IF wt = "2B" THEN "2D" ELSE "3B"]

\* the same column computed for the flip-tagged partner of the wave type
CallFlipped ==
    /\ call # <<>>
    /\ call.fn = "column"
    /\ Len(ret) = 1
    /\ call.a.wave_type \in DOMAIN FlipPartner
    /\ ret' = Append(ret, ColumnResult([call.a EXCEPT !.wave_type = FlipPartner[@]],
                                       call.smooth_noise, call.x))
    /\ UNCHANGED <<call, pending, wave_frequency, wvars, dvars>>

\* another centre shift than the given one
OtherShift(cs) ==
    IF cs = RZero THEN <<1, 4>> ELSE IF cs = <<1, 4>> THEN <<-1, 4>> ELSE RZero

\* the same column computed for another center_shift
CallShifted ==
    /\ call # <<>>
    /\ call.fn = "column"
    /\ Len(ret) = 1
    /\ ret' = Append(ret, ColumnResult([call.a EXCEPT !.center_shift = OtherShift(@)],
                                       call.smooth_noise, call.x))
    /\ UNCHANGED <<call, pending, wave_frequency, wvars, dvars>>

SpecColumn == ColumnInit /\ [][CallColumn \/ CallFlipped \/ CallShifted]_vars

ColumnDone == call # <<>> /\ ret # <<>>

\* the intensity of PRIME / PRIME_INVERTED before the asymmetry exponent
BaseIntensity(a, x) ==
    LET d == RMul(RAbs(RSub(shifted_x(a, x), <<1, 2>>)), <<2, 1>>)
    IN  IF a.wave_type = "4A" THEN RMul(RSub(ROne, d), RSub(ROne, d)) ELSE RMul(d, d)

\* the side that the sign of asymmetry indicates
OnSignSide(a, x) ==
    IF a.asymmetry > 0 THEN RLt(shifted_x(a, x), <<1, 2>>)
    ELSE ~RLt(shifted_x(a, x), <<1, 2>>)

\* C22: for 4A and 4B with asymmetry # 0 the intensity is raised to the power
\* 1 + |asymmetry| on the side that the sign of asymmetry indicates and is
\* left unchanged on the other side
C22_AsymmetryOneSide ==
    (ColumnDone /\ call.a.wave_type \in {"4A", "4B"} /\ call.a.asymmetry # 0) =>
        ret[1].current_amp =
            RMul(call.a.wave_amplitude,
                 IF OnSignSide(call.a, call.x)
                 THEN RPow(BaseIntensity(call.a, call.x), 1 + Abs(call.a.asymmetry))
                 ELSE BaseIntensity(call.a, call.x))


CombinedTypes == {"3A", "3B", "3C", "3D"}

\* the progress of a column within its own half of the canvas
HalfProgress(a, x) ==
    IF RLt(normalized_x(a, x), <<1, 2>>) THEN RMul(<<2, 1>>, normalized_x(a, x))
    ELSE RSub(RMul(<<2, 1>>, normalized_x(a, x)), ROne)

\* the shape that the combined variant names for the half of column x, at
\* position t of that shape
HalfShape(a, x, t) ==
    IF RLt(normalized_x(a, x), <<1, 2>>)
    THEN IF a.wave_type = "3D" THEN LateWave(a, t) ELSE EarlyWave(a, t)
    ELSE IF a.wave_type = "3D" THEN HalfFall(a, t) ELSE HalfRise(a, t)

\* C23: for 3A-3D the amplitude of a column is that of its half's shape at the
\* half's own progress (left: 2*normalized_x, right: 2*normalized_x - 1)
C23_HalfOwnProgress ==
    (ColumnDone /\ call.a.wave_type \in CombinedTypes) =>
        ret[1].current_amp = HalfShape(call.a, call.x, HalfProgress(call.a, call.x))

---------------------------------------------------------------------------
(* Two calls of generate_wave_variation that differ in the wave type only *)

\* the wave types compared with each other
Partner == [wt \in {"3D", "0.0", "3A", "3C"} |->
               IF wt = "3D" THEN "0.0" ELSE IF wt = "0.0" THEN "3D"
               ELSE IF wt = "3A" THEN "3C" ELSE "3A"]

\* the caller keeps the first image and calls again with the partner wave type
CallPartner ==
    /\ pc = "returned"
    /\ calls = 1
    /\ args.wave_type \in DOMAIN Partner
    /\ args' = [args EXCEPT !.wave_type = Partner[args.wave_type]]
    /\ first' = result
    /\ result' = <<>>
    /\ gradient' = <<>>
    /\ smooth_noise' = <<>>
    /\ pc' = "call"
    /\ calls' = 2
    /\ UNCHANGED <<rng, err, rng0, dvars, hvars>>

PairArgs == {a \in TwiceArgs : a.wave_type \in DOMAIN Partner}

PairInit == WaveInit(PairArgs, RngStates) /\ DitherIdle /\ OtherIdle

PairNext == Next \/ CallPartner

SpecPair == PairInit /\ [][PairNext]_vars

BothReturned == calls = 2 /\ pc = "returned"

C25_SameAs3C ==
    (/\ BothReturned
     /\ args.wave_type \in {"3A", "3C"}
     /\ (args.organic_jitter = RZero \/ args.random_seed # <<>>))
    => result = first

\* 3A and 3C were both run and a wave displaced a column
C25_Witness ==
    /\ BothReturned
    /\ args.wave_type \in {"3A", "3C"}
    /\ args.organic_jitter = RZero
    /\ \E x \in Cols(args) : wave_offset(args, smooth_noise, x) # 0
    /\ result = first


\* C26: the band of a pixel is taken from row y - wave_offset exactly for the
\* wave types 1C, 1D, 2C, 2D, 3B, 3D and from row y + wave_offset for the
\* others, and a flip-tagged variant has the wave_offset of its partner
C26_FlipPartners ==
    ColumnDone =>
        /\ \A y \in Rows(call.a) :
              ret[1].adjusted_y[y] =
                  IF call.a.wave_type \in {"1C", "1D", "2C", "2D", "3B", "3D"}
                  THEN y - ret[1].wave_offset
                  ELSE y + ret[1].wave_offset
        /\ (Len(ret) = 2 /\ ret[2].wave_type # call.a.wave_type) =>
              /\ ret[2].wave_offset = ret[1].wave_offset
              /\ \A y \in Rows(call.a) : ret[2].adjusted_y[y] = y - ret[2].wave_offset

\* a column that the wave and the jitter displace was computed for both partners
C26_Witness ==
    /\ ColumnDone
    /\ Len(ret) = 2
    /\ ret[2].wave_type # call.a.wave_type
    /\ call.smooth_noise # <<>>
    /\ ret[1].current_amp # RZero
    /\ ret[1].wave_offset # 0
    /\ ret[1].adjusted_y # ret[2].adjusted_y

---------------------------------------------------------------------------
(* generate_wave_variation with palettes long enough for slices of several *)
(* colours                                                                 *)

MaxLongPal == 4

LongArgs ==
    { [width |-> w, height |-> h, colors |-> cols, steps |-> st, wave_type |-> wt,
       border |-> 0, border_color |-> <<>>,
       wave_amplitude |-> p.wave_amplitude, amplitude_scale |-> p.amplitude_scale,
       center_shift |-> p.center_shift, asymmetry |-> p.asymmetry,
       organic_jitter |-> p.organic_jitter, random_seed |-> p.random_seed] :
      w \in 3 .. MaxW, h \in 2 .. MaxH, cols \in [1 .. MaxLongPal -> Colours],
      st \in 1 .. MaxSteps, wt \in {"0.0", "2C", "4A"},
      p \in { WaveParam(<<1, 5>>, ROne, RZero, 0, RZero, <<>>),
              WaveParam(<<2, 1>>, <<12, 1>>, RZero, 0, RZero, <<>>) } }

LongInit == WaveInit(LongArgs, {0}) /\ DitherIdle /\ OtherIdle

SpecLong == LongInit /\ [][Next]_vars

\* C27: the backfill pass overwrites every pixel that the fill pass left at
\* (0,0,0) with the average colour of the first palette slice
C27_BackfillFirstSliceAverage ==
    [][pc = "backfill" =>
          \A y \in Rows(args) : \A x \in Cols(args) :
              gradient[y][x] = Sentinel => gradient'[y][x] = StepColor(args, 0)]_vars

\* C28: in the returned image a pixel of the gradient region is (0,0,0) only
\* if the palette's first colour is #000000, and every pixel whose step colour
\* is (0,0,0) has the palette's first colour
C28_BlackBecomesFirstColour ==
    pc = "returned" =>
        \A y \in Rows(args) : \A x \in Cols(args) :
            /\ result.px[y][x] = <<0, 0, 0>> => args.colors[1] = HexBlack
            /\ PixelColor(args, smooth_noise, x, y) = <<0, 0, 0>> =>
                  result.px[y][x] = hex_to_rgb(args.colors[1])

\* a black band at a step other than 0 was repainted with a white first colour
C28_Witness ==
    /\ pc = "returned"
    /\ args.colors[1] = HexWhite
    /\ \E y \in Rows(args) : \E x \in Cols(args) :
          /\ StepOf(args, smooth_noise, x, y) # 0
          /\ StepColor(args, StepOf(args, smooth_noise, x, y)) = <<0, 0, 0>>
          /\ result.px[y][x] = <<255, 255, 255>>


\* current_amp * grad_height * sin(2*pi*wave_frequency*normalized_x) as a
\* fraction <<numerator, denominator>>
WaveDisplacement(a, x) ==
    <<WaveShape(a, x).amp[1] * grad_height(a) * Sin2(WaveShape(a, x).freq2, x, grad_width(a)),
      WaveShape(a, x).amp[2] * SinScale>>

\* organic_jitter * grad_height * smooth_noise[x]
JitterDisplacement(a, noise, x) ==
    IF noise = <<>> THEN RZero
    ELSE RMul(RMul(a.organic_jitter, <<grad_height(a), 1>>), noise[x + 1])

Floor(d) == d[1] \div d[2]

\* t is d without its fractional part: the whole part of |d|, with the sign of d
TowardZero(t, d) ==
    /\ Abs(t) = Abs(d[1]) \div d[2]
    /\ t > 0 => d[1] > 0
    /\ t < 0 => d[1] < 0

\* C29 (as stated): the pixel offset is the floor of the displacement, and the
\* jitter term is floored in the same way
C29_OffsetIsFloor ==
    ColumnDone =>
        /\ ret[1].wave_offset - ret[1].jitter_offset = Floor(WaveDisplacement(call.a, call.x))
        /\ ret[1].jitter_offset =
               Floor(JitterDisplacement(call.a, call.smooth_noise, call.x))

\* C29 (amended): the pixel offset and the jitter term are the displacements
\* rounded toward zero
C29_OffsetTowardZero ==
    ColumnDone =>
        /\ TowardZero(ret[1].wave_offset - ret[1].jitter_offset,
                      WaveDisplacement(call.a, call.x))
        /\ TowardZero(ret[1].jitter_offset,
                      JitterDisplacement(call.a, call.smooth_noise, call.x))

\* a column whose wave displacement and jitter displacement are both negative
\* and not integers
C29_Witness ==
    /\ ColumnDone
    /\ WaveDisplacement(call.a, call.x)[1] < 0
    /\ WaveDisplacement(call.a, call.x)[1] % WaveDisplacement(call.a, call.x)[2] # 0
    /\ JitterDisplacement(call.a, call.smooth_noise, call.x)[1] < 0
    /\ JitterDisplacement(call.a, call.smooth_noise, call.x)[2] # 1
    /\ ret[1].wave_offset - ret[1].jitter_offset
           = Floor(WaveDisplacement(call.a, call.x)) + 1


PrimeTypes == {"4A", "4B"}

\* the amplitude that the shape of a wave type has at position t of the canvas
\* (asymmetry aside)
ShapeOn(a, t) ==
    LET d == RMul(RAbs(RSub(t, <<1, 2>>)), <<2, 1>>)
    IN  CASE a.wave_type = "0.0" -> RZero
          [] a.wave_type = "4A" -> RMul(a.wave_amplitude, RMul(RSub(ROne, d), RSub(ROne, d)))
          [] a.wave_type = "4B" -> RMul(a.wave_amplitude, RMul(d, d))
          [] a.wave_type \in {"1A", "1C"} -> EarlyWave(a, t)
          [] a.wave_type \in {"1B", "1D"} -> LateWave(a, t)
          [] a.wave_type \in {"2A", "2C"} -> HalfRise(a, t)
          [] a.wave_type \in {"2B", "2D"} -> HalfFall(a, t)
          [] a.wave_type = "2E" ->
                IF RLt(t, <<1, 4>>) \/ RLt(<<3, 4>>, t) THEN RZero
                ELSE RMul(RMul(<<1, 5>>, a.amplitude_scale),
                          RSub(ROne, RMul(RSub(t, <<1, 4>>), <<2, 1>>)))
          [] a.wave_type \in {"3A", "3B", "3C"} ->
                IF RLt(t, <<1, 2>>) THEN EarlyWave(a, t) ELSE HalfRise(a, t)
          [] a.wave_type = "3D" ->
                IF RLt(t, <<1, 2>>) THEN LateWave(a, t) ELSE HalfFall(a, t)

\* C30 (as stated): the amplitude of every wave type is computed from shifted_x
C30_AmplitudeFromShifted ==
    (ColumnDone /\ call.a.asymmetry = 0) =>
        ret[1].current_amp = ShapeOn(call.a, shifted_x(call.a, call.x))

ShiftChanged == ColumnDone /\ Len(ret) = 2 /\ ret[2].center_shift # call.a.center_shift

\* C30 (amended): PRIME and PRIME_INVERTED compute the amplitude from shifted_x;
\* for every other wave type the amplitude, the frequency, the offset and the
\* bands of a column are the same for every center_shift
C30_OnlyPrimeShifted ==
    /\ (ColumnDone /\ call.a.wave_type \in PrimeTypes /\ call.a.asymmetry = 0) =>
           ret[1].current_amp = ShapeOn(call.a, shifted_x(call.a, call.x))
    /\ (ShiftChanged /\ call.a.wave_type \notin PrimeTypes) =>
           ret[2] = [ret[1] EXCEPT !.center_shift = ret[2].center_shift]

\* a directional wave displaced a column by the same amount under two centre
\* shifts, at a column whose shifted position lies on another part of the shape
C30_Witness ==
    /\ ShiftChanged
    /\ call.a.wave_type = "1A"
    /\ ret[1].wave_offset # 0
    /\ ret[2].wave_offset = ret[1].wave_offset
    /\ ShapeOn(call.a, shifted_x(call.a, call.x)) # ret[1].current_amp

=============================================================================
